---- MODULE Spec2Model ----
(***************************************************************************)
(* A model of the exercises of the repository: the darts scorer            *)
(* (src/src/darts.ts: calcPoints, possibleCheckout), the ISBN-13 validator *)
(* (src/src/isbn13.ts: isValid), the rock-paper-scissors judge             *)
(* (src/src/rock-paper-scissors.ts: play) and the duration formatter       *)
(* (formatDuration).                                                       *)
(*                                                                         *)
(* A text is a sequence of one-character strings, <<"3", " ", "2", "0">>   *)
(* for "3 20", so that splitting and number coercion work on characters    *)
(* as the code does.  A JavaScript number is a record [nan, n]: n is the   *)
(* integer value, nan marks not-a-number.                                  *)
(***************************************************************************)
EXTENDS Integers, Sequences, FiniteSets, TLC

VARIABLES
    fn,        \* the call under way: "none", "calcPoints", "possibleCheckout",
               \* "isValid", "play", "formatDuration"
    tokens,    \* calcPoints: the pieces the caller wrote between separators
    seps,      \* calcPoints: the separator characters the caller put between them
    hits,      \* calcPoints: the argument, the text made of tokens and seps
    x,         \* possibleCheckout: the argument
    outcome,   \* how the call ended: [kind, nan, value, text, bool, error]
    console,   \* the lines written by console.log
    memo,      \* an earlier call the caller kept: [fn, hits, x, outcome]
    plain,     \* isValid: the characters the caller wrote before adding separators
    isbn,      \* isValid: the argument
    word1,     \* play: the first move as the caller means it, lower case, bare
    word2,     \* play: the second move as the caller means it
    player1,   \* play: the first argument
    player2,   \* play: the second argument
    seconds    \* formatDuration: the argument, counted in tenths of a second

\* the arguments of isValid, play and formatDuration
others == <<plain, isbn, word1, word2, player1, player2, seconds>>

vars == <<fn, tokens, seps, hits, x, outcome, console, memo, others>>

----------------------------------------------------------------------------
(* Bounds of the model. *)

\* the longest sequence of arbitrary tokens written by a caller
MaxTokens == 3
\* the longest sequence of (multiplier, sector) pairs written by a caller
MaxPairs == 2
\* the most recent lines the console still shows
MaxConsole == 1
\* remaining points are drawn from -2..MaxRemaining and the literals of the tests
MaxRemaining == 52
\* the separators a caller adds to an ISBN, one at a time
MaxInserted == 2
\* the spaces a caller puts before and after a move
MaxPad == 1

----------------------------------------------------------------------------
(* JavaScript numbers. *)

Num(k) == [nan |-> FALSE, n |-> k]
NaN == [nan |-> TRUE, n |-> 0]

\* a < b, a > b: every comparison with NaN is false
Lt(a, b) == ~a.nan /\ ~b.nan /\ a.n < b.n
\* (variant of a > b: true when a side is NaN)
GtOrNaN(a, b) == a.nan \/ b.nan \/ a.n > b.n
Gt(a, b) == ~a.nan /\ ~b.nan /\ a.n > b.n
\* a * b, a + b: NaN is absorbing
Mul(a, b) == IF a.nan \/ b.nan THEN NaN ELSE Num(a.n * b.n)
Add(a, b) == IF a.nan \/ b.nan THEN NaN ELSE Num(a.n + b.n)

----------------------------------------------------------------------------
(* Texts. *)

Digits == <<"0", "1", "2", "3", "4", "5", "6", "7", "8", "9">>
DigitChars == {Digits[i] : i \in 1..Len(Digits)}
DigitValue(c) == (CHOOSE i \in 1..Len(Digits) : Digits[i] = c) - 1

\* the characters of the class \s that the model's texts use
WhiteSpace == {" ", "\t"}

\* the regular expression /[\s-]/ matches this character
\* (variant: the class without the hyphen, /\s/)
IsSeparatorNoHyphen(c) == c \in WhiteSpace
IsSeparator(c) == c \in WhiteSpace \cup {"-"}

\* hits.split(/[\s-]/): a cut at every single separator character; the pieces
\* between two cuts, before the first and after the last are kept, empty or not
RECURSIVE SplitFrom(_, _, _)
SplitFrom(s, i, piece) ==
    IF i > Len(s) THEN <<piece>>
    ELSE IF IsSeparator(s[i]) THEN <<piece>> \o SplitFrom(s, i + 1, <<>>)
    ELSE SplitFrom(s, i + 1, Append(piece, s[i]))

\* (variant: a cut at every run of separators, /[\s-]+/, no empty piece kept)
SplitOnRuns(s) == SelectSeq(SplitFrom(s, 1, <<>>), LAMBDA piece : piece # <<>>)
Split(s) == SplitFrom(s, 1, <<>>)

\* the value of a string of decimal digits
RECURSIVE DecimalValue(_)
DecimalValue(t) ==
    IF t = <<>> THEN 0
    ELSE 10 * DecimalValue(SubSeq(t, 1, Len(t) - 1)) + DigitValue(t[Len(t)])

\* Number(token): the empty text is 0, a text of decimal digits is its value,
\* any other text of the model's alphabet is NaN
\* (variant: the empty text is NaN, as parseInt has it)
NumberEmptyIsNaN(t) ==
    IF t # <<>> /\ \A i \in 1..Len(t) : t[i] \in DigitChars
    THEN Num(DecimalValue(t)) ELSE NaN
Number(t) ==
    IF t = <<>> THEN Num(0)
    ELSE IF \A i \in 1..Len(t) : t[i] \in DigitChars THEN Num(DecimalValue(t))
    ELSE NaN

----------------------------------------------------------------------------
(* calcPoints *)

\* hits.split(/[\s-]/).map(Number)
Splitted(h) == LET pieces == Split(h) IN [k \in 1..Len(pieces) |-> Number(pieces[k])]

\* let points = 0
\* (variant: the total is kept from an earlier call)
InitialPointsStale ==
    IF memo.fn = "calcPoints" THEN [nan |-> memo.outcome.nan, n |-> memo.outcome.value]
    ELSE Num(0)
InitialPoints == Num(0)

\* the loop condition i < splitted.length - 1
\* (variant: i < splitted.length)
LoopGuardToLength(i, length) == i < length
LoopGuard(i, length) == i < length - 1

\* if (multiplier < 1 || multiplier > 3) continue
\* (variants: the lower bound 2, the upper bound 2)
MultiplierSkippedFrom2(multiplier) == Lt(multiplier, Num(2)) \/ Gt(multiplier, Num(3))
MultiplierSkippedTo2(multiplier) == Lt(multiplier, Num(1)) \/ Gt(multiplier, Num(2))
MultiplierSkipped(multiplier) == Lt(multiplier, Num(1)) \/ Gt(multiplier, Num(3))

\* if (sector < 0 || sector > 25) continue
\* (variant: the upper bound 24)
SectorSkippedFrom25(sector) == Lt(sector, Num(0)) \/ Gt(sector, Num(24))
SectorSkipped(sector) == Lt(sector, Num(0)) \/ Gt(sector, Num(25))

\* splitted[k] for a 0-based k; a read past the end is undefined, which
\* compares false with everything and turns a product into NaN
At(splitted, k) == IF k + 1 \in 1..Len(splitted) THEN splitted[k + 1] ELSE NaN

\* i += 2
\* (variant: i += 1, every token paired with its successor)
AdvanceByOne(i) == i + 1
Advance(i) == i + 2

\* the for loop from index i with the total so far
RECURSIVE Loop(_, _, _)
Loop(splitted, i, points) ==
    IF ~LoopGuard(i, Len(splitted)) THEN points
    ELSE LET multiplier == At(splitted, i)
             sector == At(splitted, i + 1)
         IN  IF MultiplierSkipped(multiplier) THEN Loop(splitted, Advance(i), points)
             ELSE IF SectorSkipped(sector) THEN Loop(splitted, Advance(i), points)
             ELSE Loop(splitted, Advance(i), Add(points, Mul(multiplier, sector)))

calcPoints(h) == Loop(Splitted(h), 0, InitialPoints)

----------------------------------------------------------------------------
(* Inputs. *)

\* the caller's way of writing a whole number into the text
RECURSIVE Decimal(_)
Decimal(n) ==
    IF n < 10 THEN <<Digits[n + 1]>>
    ELSE Append(Decimal(n \div 10), Digits[(n % 10) + 1])

\* the values around the range checks of calcPoints
EdgeValues == {0, 1, 3, 4, 25, 26}

\* the tokens a caller writes: whole numbers, nothing at all, a non-number
NumberTokens == {Decimal(n) : n \in EdgeValues}
Tokens == NumberTokens \cup {<<>>, <<"x">>}

Separators == {" ", "-"}

\* the text: token, separator, token, ..., token
RECURSIVE Join(_, _)
Join(ts, ss) ==
    IF Len(ts) = 0 THEN <<>>
    ELSE IF Len(ts) = 1 THEN ts[1]
    ELSE ts[1] \o <<ss[1]>> \o Join(Tail(ts), Tail(ss))

\* the inputs of the tests of calcPoints, all separators a space
Spaces(n) == [k \in 1..n |-> " "]
TestHits1 == <<Decimal(3), Decimal(20), Decimal(1), Decimal(17), Decimal(2), Decimal(4)>>
TestHits2 == <<Decimal(2), Decimal(15), Decimal(1), Decimal(18), Decimal(3), Decimal(19)>>
TestHits3 == <<Decimal(3), Decimal(20), Decimal(1), Decimal(5)>>
TestHits == {TestHits1, TestHits2, TestHits3}

TokenSeqs(max) == UNION {[1..k -> Tokens] : k \in 1..max}

\* throws as a caller means them: multipliers and sectors around the ranges
Multipliers == {0, 1, 3, 4}
Sectors == {0, 25, 26}
PairSeqs(max) == UNION {[1..k -> Multipliers \X Sectors] : k \in 1..max}
\* the tokens of a sequence of pairs: multiplier, sector, multiplier, ...
PairTokens(ps) ==
    [i \in 1..(2 * Len(ps)) |->
        Decimal(ps[(i + 1) \div 2][IF i % 2 = 1 THEN 1 ELSE 2])]
\* separator `inside` between multiplier and sector, `between` after a pair
PairSeps(n, inside, between) ==
    [i \in 1..(2 * n - 1) |-> IF i % 2 = 1 THEN inside ELSE between]

\* throws with a token that is no number in the place of a multiplier or of a
\* sector, next to values inside and outside the ranges
NaNMultipliers == {Decimal(1), Decimal(4), <<"x">>}
NaNSectors == {Decimal(25), Decimal(26), <<"x">>}
NaNPairSeqs(max) == UNION {[1..k -> NaNMultipliers \X NaNSectors] : k \in 1..max}
NaNPairTokens(ps) ==
    [i \in 1..(2 * Len(ps)) |-> ps[(i + 1) \div 2][IF i % 2 = 1 THEN 1 ELSE 2]]

\* the first k tokens of an input of the tests
TestPrefixes == UNION {{SubSeq(ts, 1, k) : k \in 1..Len(ts)} : ts \in TestHits}

\* the arguments of the tests of possibleCheckout
TestRemaining == {477, 451, 480, 441}
Remaining == (-2..MaxRemaining) \cup TestRemaining

----------------------------------------------------------------------------
(* Outcomes. *)

NoOutcome ==
    [kind |-> "none", nan |-> FALSE, value |-> 0, text |-> <<>>, bool |-> FALSE,
     error |-> ""]
ReturnNumber(v) ==
    [kind |-> "return", nan |-> v.nan, value |-> v.n, text |-> <<>>, bool |-> FALSE,
     error |-> ""]
ReturnText(t) ==
    [kind |-> "return", nan |-> FALSE, value |-> 0, text |-> t, bool |-> FALSE,
     error |-> ""]
ReturnBoolean(b) ==
    [kind |-> "return", nan |-> FALSE, value |-> 0, text |-> <<>>, bool |-> b,
     error |-> ""]
\* an error with a fixed message
Throw(message) ==
    [kind |-> "throw", nan |-> FALSE, value |-> 0, text |-> <<>>, bool |-> FALSE,
     error |-> message]
\* an error whose message ends with a text of the call: message followed by t
ThrowWith(message, t) ==
    [kind |-> "throw", nan |-> FALSE, value |-> 0, text |-> t, bool |-> FALSE,
     error |-> message]

NoMemo == [fn |-> "none", hits |-> <<>>, x |-> 0, seconds |-> 0, outcome |-> NoOutcome]

----------------------------------------------------------------------------
(* possibleCheckout *)

\* console.log(x): the line is added; the console shows its last MaxConsole lines
ConsoleLog(lines, line) ==
    LET all == Append(lines, line)
    IN  IF Len(all) <= MaxConsole THEN all
        ELSE SubSeq(all, Len(all) - MaxConsole + 1, Len(all))

\* throw new Error("not implemented yet"), whatever x is
possibleCheckout(r) == Throw("not implemented yet")

----------------------------------------------------------------------------
(* The calls. *)

Init ==
    /\ fn = "none"
    /\ tokens = <<>>
    /\ seps = <<>>
    /\ hits = <<>>
    /\ x = 0
    /\ outcome = NoOutcome
    /\ console = <<>>
    /\ memo = NoMemo
    /\ plain = <<>>
    /\ isbn = <<>>
    /\ word1 = <<>>
    /\ word2 = <<>>
    /\ player1 = <<>>
    /\ player2 = <<>>
    /\ seconds = 0

\* a call calcPoints(Join(ts, ss))
CalcPointsOn(ts, ss) ==
    /\ fn' = "calcPoints"
    /\ tokens' = ts
    /\ seps' = ss
    /\ hits' = Join(ts, ss)
    /\ outcome' = ReturnNumber(calcPoints(Join(ts, ss)))
    /\ UNCHANGED <<x, console, memo, others>>

\* a call possibleCheckout(r)
PossibleCheckoutOn(r) ==
    /\ fn' = "possibleCheckout"
    /\ x' = r
    /\ console' = ConsoleLog(console, r)
    /\ outcome' = possibleCheckout(r)
    /\ UNCHANGED <<tokens, seps, hits, memo, others>>

\* a call is made when no call is under way
CallCalcPoints ==
    /\ fn = "none"
    /\ \E ts \in TokenSeqs(MaxTokens) : \E ss \in [1..(Len(ts) - 1) -> Separators] :
           CalcPointsOn(ts, ss)

\* a caller writes a sequence of throws
CallCalcPointsPairs ==
    /\ fn = "none"
    /\ \E ps \in PairSeqs(MaxPairs) : \E inside \in Separators, between \in Separators :
           CalcPointsOn(PairTokens(ps), PairSeps(Len(ps), inside, between))

\* a caller writes a sequence of throws, non-numbers among them, with a space
\* between any two tokens
CallCalcPointsNaN ==
    /\ fn = "none"
    /\ \E ps \in NaNPairSeqs(MaxPairs) :
           CalcPointsOn(NaNPairTokens(ps), Spaces(2 * Len(ps) - 1))

\* the inputs of the tests and their beginnings
CallCalcPointsTest ==
    /\ fn = "none"
    /\ \E ts \in TestPrefixes : CalcPointsOn(ts, Spaces(Len(ts) - 1))

CallPossibleCheckout ==
    /\ fn = "none"
    /\ \E r \in Remaining : PossibleCheckoutOn(r)

CallPossibleCheckoutTest ==
    /\ fn = "none"
    /\ \E r \in TestRemaining : PossibleCheckoutOn(r)

\* the caller has taken the outcome of the call; what the call left outside
\* itself (the console) stays
Return ==
    /\ fn # "none"
    /\ fn' = "none"
    /\ tokens' = <<>>
    /\ seps' = <<>>
    /\ hits' = <<>>
    /\ x' = 0
    /\ outcome' = NoOutcome
    /\ plain' = <<>>
    /\ isbn' = <<>>
    /\ word1' = <<>>
    /\ word2' = <<>>
    /\ player1' = <<>>
    /\ player2' = <<>>
    /\ seconds' = 0
    /\ UNCHANGED <<console, memo>>

\* the caller keeps the call and its outcome to compare a later call with
Keep ==
    /\ fn # "none"
    /\ memo' = [fn |-> fn, hits |-> hits, x |-> x, seconds |-> seconds,
                outcome |-> outcome]
    /\ fn' = "none"
    /\ tokens' = <<>>
    /\ seps' = <<>>
    /\ hits' = <<>>
    /\ x' = 0
    /\ outcome' = NoOutcome
    /\ UNCHANGED <<console, others>>

\* calls of calcPoints: arbitrary token sequences, sequences of throws, the
\* inputs of the tests
NextCalc ==
    \/ CallCalcPoints
    \/ CallCalcPointsPairs
    \/ CallCalcPointsNaN
    \/ CallCalcPointsTest
    \/ Return
SpecCalc == Init /\ [][NextCalc]_vars

\* calls of possibleCheckout
NextCheckout == CallPossibleCheckout \/ Return
SpecCheckout == Init /\ [][NextCheckout]_vars

\* calls of both functions in any order, earlier calls kept for comparison
Next == CallCalcPointsTest \/ CallPossibleCheckoutTest \/ Return \/ Keep
Spec == Init /\ [][Next]_vars

\* throws with a sector below the range, written with a minus sign
SignedMultipliers == {1, 2, 3}
SignedSectors == {-5, -1, 3, 20}
SignedText(n) == IF n < 0 THEN <<"-">> \o Decimal(0 - n) ELSE Decimal(n)
SignedPairSeqs(max) ==
    UNION {[1..k -> SignedMultipliers \X SignedSectors] : k \in 1..max}
SignedPairTokens(ps) ==
    [i \in 1..(2 * Len(ps)) |->
        SignedText(ps[(i + 1) \div 2][IF i % 2 = 1 THEN 1 ELSE 2])]

\* a caller writes a sequence of throws, negative sectors among them, with a
\* space between any two numbers
CallCalcPointsSigned ==
    /\ fn = "none"
    /\ \E ps \in SignedPairSeqs(MaxPairs) :
           CalcPointsOn(SignedPairTokens(ps), Spaces(2 * Len(ps) - 1))

NextSigned == CallCalcPointsSigned \/ Return
SpecSigned == Init /\ [][NextSigned]_vars

----------------------------------------------------------------------------
(* isValid *)

\* the regular expression /[\s-]/g matches this character
IsbnSeparator(c) == c \in WhiteSpace \cup {"-"}

\* isbn.replace(/[\s-]/g, ""): every match is removed
\* (variant: without the flag g only the first match is removed)
RECURSIVE StripFirstOnly(_)
StripFirstOnly(t) ==
    IF t = <<>> THEN <<>>
    ELSE IF IsbnSeparator(Head(t)) THEN Tail(t)
    ELSE <<Head(t)>> \o StripFirstOnly(Tail(t))
Strip(t) == SelectSeq(t, LAMBDA c : ~IsbnSeparator(c))

\* the count in /^\d{13}$/
IsbnLength == 13

\* /^\d{13}$/.test(digits): exactly 13 characters, each a decimal digit
\* (variant: /^\d+$/, any number of digits)
ThirteenDigitsAnyLength(digits) ==
    Len(digits) > 0 /\ \A i \in 1..Len(digits) : digits[i] \in DigitChars
ThirteenDigits(digits) ==
    Len(digits) = IsbnLength /\ \A i \in 1..Len(digits) : digits[i] \in DigitChars

\* i % 2 === 0 ? 1 : 3, for the 0-based index i
\* (variant: the weights exchanged)
WeightExchanged(i) == IF i % 2 = 0 THEN 3 ELSE 1
\* (variant: the weight 2 in the place of 3)
WeightOneTwo(i) == IF i % 2 = 0 THEN 1 ELSE 2
Weight(i) == IF i % 2 = 0 THEN 1 ELSE 3

\* digits.split("").map(Number).reduce((acc, digit, i) => acc + digit * weight, 0)
\* from the 0-based index i on
RECURSIVE Reduce(_, _, _)
Reduce(digits, i, acc) ==
    IF i >= Len(digits) THEN acc
    ELSE Reduce(digits, i + 1,
                Add(acc, Mul(Number(<<digits[i + 1]>>), Num(Weight(i)))))

\* sum % 10 === 0, false for NaN
\* (variant: sum % 5 === 0)
DivisibleBy5(sum) == ~sum.nan /\ sum.n % 5 = 0
DivisibleBy10(sum) == ~sum.nan /\ sum.n % 10 = 0

isValid(t) ==
    LET digits == Strip(t)
    IN  IF ~ThirteenDigits(digits) THEN FALSE
        ELSE DivisibleBy10(Reduce(digits, 0, Num(0)))

\* the digit strings of the tests of isValid
Text(ds) == [i \in 1..Len(ds) |-> Digits[ds[i] + 1]]
Isbn1 == Text(<<9, 7, 8, 3, 8, 6, 6, 8, 0, 1, 9, 2, 9>>)
Isbn2 == Text(<<9, 7, 8, 3, 1, 6, 1, 4, 8, 4, 1, 0, 0>>)
Isbn3 == Text(<<9, 7, 9, 1, 2, 3, 4, 5, 6, 7, 8, 9, 6>>)
TestIsbns == {Isbn1, Isbn2, Isbn3}
\* "9783161484100123", too long; its first 11 characters are the test's
\* too short "97831614841"
IsbnLong == Isbn2 \o Text(<<1, 2, 3>>)
\* "97831A1484100"
IsbnLetter == [Isbn2 EXCEPT ![6] = "A"]
\* "978-3-16-148410-0" and " 978 3866801929 "
IsbnHyphens ==
    Text(<<9, 7, 8>>) \o <<"-">> \o Text(<<3>>) \o <<"-">> \o Text(<<1, 6>>) \o <<"-">>
        \o Text(<<1, 4, 8, 4, 1, 0>>) \o <<"-">> \o Text(<<0>>)
IsbnSpaces == <<" ">> \o Text(<<9, 7, 8>>) \o <<" ">> \o SubSeq(Isbn1, 4, 13) \o <<" ">>

\* the characters a caller puts at one place of an ISBN
IsbnChars == DigitChars \cup {"A"}

\* what a caller writes before adding separators: an ISBN of the tests with
\* one character replaced, or the first characters of the long input
EditedIsbns ==
    {[b EXCEPT ![p] = c] : b \in TestIsbns, p \in 1..IsbnLength, c \in IsbnChars}
IsbnPrefixes == {SubSeq(IsbnLong, 1, k) : k \in 1..Len(IsbnLong)}
\* the texts a caller goes on to add separators to
SeparatedIsbns ==
    {Isbn1, [Isbn1 EXCEPT ![13] = "8"], IsbnLetter, SubSeq(IsbnLong, 1, 12)}

\* a text with the character c put in after its first p characters
InsertAt(t, p, c) == SubSeq(t, 1, p) \o <<c>> \o SubSeq(t, p + 1, Len(t))
\* a text without its p-th character
RemoveAt(t, p) == SubSeq(t, 1, p - 1) \o SubSeq(t, p + 1, Len(t))

\* the caller writes the characters of an ISBN
WriteIsbn ==
    /\ fn = "none" /\ isbn = <<>>
    /\ \E t \in EditedIsbns \cup IsbnPrefixes :
           /\ plain' = t
           /\ isbn' = t
    /\ UNCHANGED <<fn, tokens, seps, hits, x, outcome, console, memo, word1,
                   word2, player1, player2, seconds>>

\* the caller writes a separated input of the tests
WriteIsbnTest ==
    /\ fn = "none" /\ isbn = <<>>
    /\ \E t \in {<<Isbn2, IsbnHyphens>>, <<Isbn1, IsbnSpaces>>} :
           /\ plain' = t[1]
           /\ isbn' = t[2]
    /\ UNCHANGED <<fn, tokens, seps, hits, x, outcome, console, memo, word1,
                   word2, player1, player2, seconds>>

\* the caller adds a hyphen or a space somewhere in the text
InsertSeparator ==
    /\ fn = "none" /\ plain \in SeparatedIsbns
    /\ Len(isbn) - Len(plain) < MaxInserted
    /\ \E p \in 0..Len(isbn), c \in Separators : isbn' = InsertAt(isbn, p, c)
    /\ UNCHANGED <<fn, tokens, seps, hits, x, outcome, console, memo, plain,
                   word1, word2, player1, player2, seconds>>

\* a call isValid(isbn) on the text written so far, the empty text included
CallIsValid ==
    /\ fn = "none"
    /\ fn' = "isValid"
    /\ outcome' = ReturnBoolean(isValid(isbn))
    /\ UNCHANGED <<tokens, seps, hits, x, console, memo, others>>

NextIsbn == WriteIsbn \/ WriteIsbnTest \/ InsertSeparator \/ CallIsValid \/ Return
SpecIsbn == Init /\ [][NextIsbn]_vars

\* the first 12 digits of an ISBN of the tests, one of them replaced
Bodies ==
    {[SubSeq(b, 1, IsbnLength - 1) EXCEPT ![p] = c] :
        b \in TestIsbns, p \in 1..(IsbnLength - 1), c \in DigitChars}

\* the caller writes 12 digits
WriteBody ==
    /\ fn = "none" /\ isbn = <<>>
    /\ \E b \in Bodies :
           /\ plain' = b
           /\ isbn' = b
    /\ UNCHANGED <<fn, tokens, seps, hits, x, outcome, console, memo, word1,
                   word2, player1, player2, seconds>>

\* the caller adds a 13th digit
AppendCheckDigit ==
    /\ fn = "none" /\ isbn \in Bodies
    /\ \E c \in DigitChars :
           /\ plain' = Append(isbn, c)
           /\ isbn' = Append(isbn, c)
    /\ UNCHANGED <<fn, tokens, seps, hits, x, outcome, console, memo, word1,
                   word2, player1, player2, seconds>>

NextCheckDigit == WriteBody \/ AppendCheckDigit \/ CallIsValid \/ Return
SpecCheckDigit == Init /\ [][NextCheckDigit]_vars

----------------------------------------------------------------------------
(* play *)

Lowers == <<"a", "b", "c", "d", "e", "f", "g", "h", "i", "j", "k", "l", "m",
            "n", "o", "p", "q", "r", "s", "t", "u", "v", "w", "x", "y", "z">>
Uppers == <<"A", "B", "C", "D", "E", "F", "G", "H", "I", "J", "K", "L", "M",
            "N", "O", "P", "Q", "R", "S", "T", "U", "V", "W", "X", "Y", "Z">>

\* move.trim(): white space at both ends is dropped
RECURSIVE TrimStart(_)
TrimStart(t) ==
    IF t # <<>> /\ Head(t) \in WhiteSpace THEN TrimStart(Tail(t)) ELSE t
RECURSIVE TrimEnd(_)
TrimEnd(t) ==
    IF t # <<>> /\ t[Len(t)] \in WhiteSpace
    THEN TrimEnd(SubSeq(t, 1, Len(t) - 1)) ELSE t
Trim(t) == TrimEnd(TrimStart(t))

\* toLowerCase(): every capital letter becomes its small letter
LowerChar(c) ==
    IF \E i \in 1..Len(Uppers) : Uppers[i] = c
    THEN Lowers[CHOOSE i \in 1..Len(Uppers) : Uppers[i] = c] ELSE c
ToLowerCase(t) == [i \in 1..Len(t) |-> LowerChar(t[i])]

\* const normalize = (move) => move.trim().toLowerCase()
\* (variants: without toLowerCase, without trim)
normalizeNoLowerCase(move) == Trim(move)
normalizeNoTrim(move) == ToLowerCase(move)
normalize(move) == ToLowerCase(Trim(move))

Rock == <<"r", "o", "c", "k">>
Paper == <<"p", "a", "p", "e", "r">>
Scissors == <<"s", "c", "i", "s", "s", "o", "r", "s">>
validMoves == {Rock, Paper, Scissors}

\* winMap: the move each move beats
\* (variant: paper beats scissors, nothing beats rock)
winMapPaperCuts == [m \in validMoves |->
                       IF m = Rock THEN Scissors ELSE IF m = Scissors THEN Paper ELSE Scissors]
winMap == [m \in validMoves |->
              IF m = Rock THEN Scissors ELSE IF m = Scissors THEN Paper ELSE Rock]

\* throw new Error(`Invalid move: ${player}`): the argument as passed
\* (variant: the normalized move in the message)
InvalidMoveNormalized(player, m) == ThrowWith("Invalid move: ", m)
InvalidMove(player, m) == ThrowWith("Invalid move: ", player)

\* winMap[m1] === m2 ? 1 : 2
\* (variant: the two results exchanged)
WinnerExchanged(m1, m2) == IF winMap[m1] = m2 THEN 2 ELSE 1
Winner(m1, m2) == IF winMap[m1] = m2 THEN 1 ELSE 2

\* (variant: player2 validated before player1)
playSecondFirst(p1, p2) ==
    LET m1 == normalize(p1)
        m2 == normalize(p2)
    IN  IF m2 \notin validMoves THEN InvalidMove(p2, m2)
        ELSE IF m1 \notin validMoves THEN InvalidMove(p1, m1)
        ELSE IF m1 = m2 THEN ReturnNumber(Num(0))
        ELSE ReturnNumber(Num(Winner(m1, m2)))
play(p1, p2) ==
    LET m1 == normalize(p1)
        m2 == normalize(p2)
    IN  IF m1 \notin validMoves THEN InvalidMove(p1, m1)
        ELSE IF m2 \notin validMoves THEN InvalidMove(p2, m2)
        ELSE IF m1 = m2 THEN ReturnNumber(Num(0))
        ELSE ReturnNumber(Num(Winner(m1, m2)))

\* the words a caller means: the moves, the invalid moves of the tests, a
\* move broken by a space, no word at all
Lizard == <<"l", "i", "z", "a", "r", "d">>
Spock == <<"s", "p", "o", "c", "k">>
Words == validMoves \cup {Lizard, Spock, <<"r", "o", " ", "c", "k">>, <<>>}

\* the ways a caller writes a word: as it is, in capitals, with a capital
\* first letter; with spaces before and after
UpperChar(c) ==
    IF \E i \in 1..Len(Lowers) : Lowers[i] = c
    THEN Uppers[CHOOSE i \in 1..Len(Lowers) : Lowers[i] = c] ELSE c
ToUpperCase(t) == [i \in 1..Len(t) |-> UpperChar(t[i])]
Capitalised(t) == [i \in 1..Len(t) |-> IF i = 1 THEN UpperChar(t[i]) ELSE t[i]]
Cased(w) == {w, ToUpperCase(w), Capitalised(w)}
Written(w) ==
    {Spaces(before) \o c \o Spaces(after) :
        c \in Cased(w), before \in 0..MaxPad, after \in 0..MaxPad}

\* a call play(p1, p2) with the words written some way
CallPlay ==
    /\ fn = "none"
    /\ \E w1 \in Words, w2 \in Words :
         \E p1 \in Written(w1), p2 \in Written(w2) :
           /\ word1' = w1
           /\ word2' = w2
           /\ player1' = p1
           /\ player2' = p2
           /\ outcome' = play(p1, p2)
    /\ fn' = "play"
    /\ UNCHANGED <<tokens, seps, hits, x, console, memo, plain, isbn, seconds>>

NextPlay == CallPlay \/ Return
SpecPlay == Init /\ [][NextPlay]_vars

----------------------------------------------------------------------------
(* formatDuration.  The argument is a number of seconds counted in tenths:  *)
(* t stands for t / 10 seconds, so 596 is 59.6 seconds and -4 is -0.4.      *)

\* the most hours of the whole durations passed, besides a day and more
MaxHours == 2
\* the negative arguments go down to this many tenths of a second below 0
MaxNegative == 100

\* seconds < 0
\* (variant: the test made on the rounded number of seconds)
NegativeAfterRounding(t) == (t + 5) \div 10 < 0
Negative(t) == t < 0

\* Math.round: the nearest whole number, a half going up
\* (variant: Math.floor)
MathFloor(t) == t \div 10
MathRound(t) == (t + 5) \div 10

\* (variant: the hours of the day, whole days dropped)
hoursOfDay(totalSeconds) == (totalSeconds \div 3600) % 24
hours(totalSeconds) == totalSeconds \div 3600
\* (variant: the minutes of the whole duration)
minutesOfTotal(totalSeconds) == totalSeconds \div 60
minutes(totalSeconds) == (totalSeconds % 3600) \div 60
secs(totalSeconds) == totalSeconds % 60

\* secs || result === ""
\* (variant: the seconds are written every time)
SecsWrittenAlways(s, result) == TRUE
SecsWritten(s, result) == s # 0 \/ result = <<>>

formatDuration(t) ==
    IF Negative(t) THEN Throw("Duration must be positive")
    ELSE LET totalSeconds == MathRound(t)
             h == hours(totalSeconds)
             m == minutes(totalSeconds)
             s == secs(totalSeconds)
             result0 == <<>>
             result1 == IF h # 0 THEN result0 \o Decimal(h) \o <<"h">>
                        ELSE result0
             result2 == IF m # 0 THEN result1 \o Decimal(m) \o <<"m">>
                        ELSE result1
             result3 == IF SecsWritten(s, result2)
                        THEN result2 \o Decimal(s) \o <<"s">>
                        ELSE result2
         IN  ReturnText(result3)

\* the hours of the whole durations: a few, and a day and more
Hours == (0..MaxHours) \cup {24, 25}
\* whole seconds next to a minute, an hour, a day
WholeEdges == {0, 59, 3599, 3600, 86399}
\* the arguments of duration.test.ts, in tenths of a second
TestDurations == {0, 330, 1230, 5000, 36000, 39990, -100, 596, 594}

FormatDurationOn(t) ==
    /\ seconds' = t
    /\ outcome' = formatDuration(t)
    /\ fn' = "formatDuration"
    /\ UNCHANGED <<tokens, seps, hits, x, console, memo, plain, isbn, word1,
                   word2, player1, player2>>

\* a whole number of seconds
CallFormatDuration ==
    /\ fn = "none"
    /\ \E h \in Hours, m \in 0..59, s \in 0..59 :
           FormatDurationOn(10 * (3600 * h + 60 * m + s))
\* a number of seconds with a fraction
CallFormatDurationFraction ==
    /\ fn = "none"
    /\ \E n \in WholeEdges, tenths \in 1..9 : FormatDurationOn(10 * n + tenths)
\* a negative number of seconds
CallFormatDurationNegative ==
    /\ fn = "none"
    /\ \E t \in 1..MaxNegative : FormatDurationOn(-t)
CallFormatDurationTest ==
    /\ fn = "none"
    /\ \E t \in TestDurations : FormatDurationOn(t)

NextDuration ==
    \/ CallFormatDuration
    \/ CallFormatDurationFraction
    \/ CallFormatDurationNegative
    \/ CallFormatDurationTest
    \/ Return
SpecDuration == Init /\ [][NextDuration]_vars

\* minute and second values next to the ends of their ranges and to a
\* second digit
EdgeParts == {0, 1, 10, 11, 59}

\* a whole number of seconds with parts next to the edges
CallFormatDurationEdge ==
    /\ fn = "none"
    /\ \E h \in Hours, m \in EdgeParts, s \in EdgeParts :
           FormatDurationOn(10 * (3600 * h + 60 * m + s))

\* the caller keeps a call of formatDuration and its outcome to compare a
\* later call with
KeepDuration ==
    /\ fn = "formatDuration"
    /\ memo' = [fn |-> fn, hits |-> hits, x |-> x, seconds |-> seconds,
                outcome |-> outcome]
    /\ fn' = "none"
    /\ seconds' = 0
    /\ outcome' = NoOutcome
    /\ UNCHANGED <<tokens, seps, hits, x, console, plain, isbn, word1, word2,
                   player1, player2>>

\* calls of formatDuration one after another, an earlier one kept
NextDurationPair == CallFormatDurationEdge \/ KeepDuration \/ Return
SpecDurationPair == Init /\ [][NextDurationPair]_vars

----------------------------------------------------------------------------
(* What the claims speak of. *)

\* the call under way is a call of calcPoints that has ended
CalcDone == fn = "calcPoints"
\* the call under way is a call of possibleCheckout that has ended
CheckoutDone == fn = "possibleCheckout"

\* a token is a whole number as a caller writes it: digits, no sign
WholeNumbers == 0..99
WholeNumberTokens == {Decimal(n) : n \in WholeNumbers}
ValueOfToken == [t \in WholeNumberTokens |-> CHOOSE n \in WholeNumbers : Decimal(n) = t]
IsWholeNumber(t) == t \in WholeNumberTokens
WrittenValue(t) == ValueOfToken[t]

\* the input is a sequence of whole-number tokens forming complete pairs
CompletePairs ==
    /\ Len(tokens) % 2 = 0
    /\ \A k \in 1..Len(tokens) : IsWholeNumber(tokens[k])

\* what a pair (multiplier, sector) is to add to the score
Contribution(m, s) == IF m \in 1..3 /\ s \in 0..25 THEN m * s ELSE 0

\* the sum of the contributions of the pairs of a token sequence
RECURSIVE PairSum(_)
PairSum(ts) ==
    IF Len(ts) < 2 THEN 0
    ELSE Contribution(WrittenValue(ts[1]), WrittenValue(ts[2]))
             + PairSum(SubSeq(ts, 3, Len(ts)))

\* a sequence without its elements at the positions from..to
Without(q, from, to) == SubSeq(q, 1, from - 1) \o SubSeq(q, to + 1, Len(q))

\* a text from its characters
DoubleLabel(n) == <<"D", "o", "u", "b", "l", "e", " ">> \o Decimal(n)
NoCheckout == <<"N", "o", " ", "C", "h", "e", "c", "k", "o", "u", "t">>

----------------------------------------------------------------------------
(* C1 *)

----------------------------------------------------------------------------
(* C4 *)

\* the pair at tokens 2k-1, 2k of the input
PairMultiplier(k) == WrittenValue(tokens[2 * k - 1])
PairSector(k) == WrittenValue(tokens[2 * k])
\* the total of the input without that pair
TotalWithoutPair(k) ==
    calcPoints(Join(Without(tokens, 2 * k - 1, 2 * k), Spaces(Len(tokens) - 3)))

\* C4: a pair with multiplier 1 or 3 and sector 0 or 25 adds multiplier * sector
\* to the total of the other pairs; a pair with multiplier 0 or 4, or with
\* sector 26, adds nothing; the call returns in each case.
C4_RangeEdges ==
    (CalcDone /\ CompletePairs) =>
        \A k \in 1..(Len(tokens) \div 2) :
            LET m == PairMultiplier(k)
                s == PairSector(k)
                rest == TotalWithoutPair(k)
            IN  /\ (m \in {1, 3} /\ s \in {0, 25}) =>
                       outcome = ReturnNumber(Add(rest, Num(m * s)))
                /\ (m \in {0, 4} \/ s = 26) => outcome = ReturnNumber(rest)

\* a pair on the upper edge of both ranges next to a pair just outside
C4_Witness ==
    /\ CalcDone /\ CompletePairs /\ Len(tokens) = 4
    /\ PairMultiplier(1) = 3 /\ PairSector(1) = 25
    /\ PairMultiplier(2) = 1 /\ PairSector(2) = 26
    /\ outcome.kind = "return" /\ outcome.value = 75

----------------------------------------------------------------------------
(* C5 *)

Hits1 == <<"3", " ", "2", "0", " ", "1", " ", "1", "7", " ", "2", " ", "4">>
Hits2 == <<"2", " ", "1", "5", " ", "1", " ", "1", "8", " ", "3", " ", "1", "9">>
Hits3 == <<"3", " ", "2", "0", " ", "1", " ", "5">>

----------------------------------------------------------------------------
(* C7 *)

\* the input without its last token and the separator before it
WithoutLastToken ==
    Join(SubSeq(tokens, 1, Len(tokens) - 1), SubSeq(seps, 1, Len(seps) - 1))

\* C7: for every input with an odd number of tokens calcPoints returns what it
\* returns for the input without its last token; the empty text and an input
\* of a single token give 0.
C7_TrailingTokenIgnored ==
    (CalcDone /\ Len(tokens) % 2 = 1) =>
        /\ outcome = ReturnNumber(calcPoints(WithoutLastToken))
        /\ Len(tokens) = 1 => outcome = ReturnNumber(Num(0))

\* a counted pair followed by a token that could be a multiplier
C7_Witness ==
    /\ CalcDone /\ Len(tokens) = 3
    /\ tokens[3] = Decimal(1)
    /\ outcome.value = 75

----------------------------------------------------------------------------
(* C8 *)

\* the separators of the other kind
OtherKind(c) == IF c = "-" THEN WhiteSpace ELSE {"-"}

\* C8: replacing a single separator between two whole-number tokens by a
\* separator of the other kind (a hyphen by white space, white space by a
\* hyphen) leaves the result of calcPoints unchanged.
C8_SeparatorsEquivalent ==
    CalcDone =>
        \A k \in 1..Len(seps) :
            (IsWholeNumber(tokens[k]) /\ IsWholeNumber(tokens[k + 1])) =>
                \A c \in OtherKind(seps[k]) :
                    ReturnNumber(calcPoints(Join(tokens, [seps EXCEPT ![k] = c])))
                        = outcome

\* "3-25 1-25" is scored like "3 25 1 25"
C8_Witness ==
    /\ CalcDone /\ CompletePairs
    /\ hits = <<"3", "-", "2", "5", " ", "1", "-", "2", "5">>
    /\ outcome.value = 100

----------------------------------------------------------------------------
(* C9 *)

\* the input is made of digits and separators only
DigitsAndSeparators ==
    \A i \in 1..Len(hits) : hits[i] \in DigitChars \/ IsSeparator(hits[i])

\* C9: for every input of digits, white space and hyphens calcPoints returns
\* a number that is not NaN and is at least 0.
C9_NonNegativeInteger ==
    (CalcDone /\ DigitsAndSeparators) =>
        /\ outcome.kind = "return"
        /\ ~outcome.nan
        /\ outcome.value \in Nat

\* a counted pair followed by a separator that ends the text
C9_Witness ==
    /\ CalcDone /\ DigitsAndSeparators
    /\ Len(tokens) = 3 /\ tokens[3] = <<>>
    /\ outcome.value > 0

----------------------------------------------------------------------------
(* C2, C3, C6 *)

\* the remaining points a single double finishes: 2, 4, ..., 40 and 50
DoubleOuts == {2 * n : n \in 1..20} \cup {50}

\* C2: possibleCheckout(remaining) returns "Double " followed by remaining / 2
\* if and only if remaining is in {2, 4, ..., 40} or is 50, and returns
\* "No Checkout" for every other integer.
C2_DoubleOutRule ==
    CheckoutDone =>
        outcome = IF x \in DoubleOuts THEN ReturnText(DoubleLabel(x \div 2))
                  ELSE ReturnText(NoCheckout)

\* C3: possibleCheckout has no error path: for every integer it returns a
\* "Double N" label or "No Checkout" and never raises an exception.
C3_NoErrorPath ==
    CheckoutDone =>
        /\ outcome.kind = "return"
        /\ \/ outcome.text = NoCheckout
           \/ \E n \in WholeNumbers : outcome.text = DoubleLabel(n)

\* C6: possibleCheckout returns "Double 12" for 477 and "Double 25" for 451,
\* and "No Checkout" for 480 and for 441.
C6_TestLiterals ==
    CheckoutDone =>
        /\ x = 477 => outcome = ReturnText(DoubleLabel(12))
        /\ x = 451 => outcome = ReturnText(DoubleLabel(25))
        /\ x = 480 => outcome = ReturnText(NoCheckout)
        /\ x = 441 => outcome = ReturnText(NoCheckout)

----------------------------------------------------------------------------
(* C10 *)

\* the call under way is the call the caller kept earlier
SameCallAsKept ==
    /\ fn # "none"
    /\ fn = memo.fn
    /\ hits = memo.hits
    /\ x = memo.x

----------------------------------------------------------------------------
(* C11 *)

\* C11: neither calcPoints nor possibleCheckout has a side effect: no call
\* writes to the console, the one thing of the model that outlives a call.
C11_NoSideEffect == [][console' = console]_vars

----------------------------------------------------------------------------
(* C12, C13, C14 *)

\* the call under way is a call of isValid that has ended
IsValidDone == fn = "isValid"

AllDigits(t) == \A i \in 1..Len(t) : t[i] \in DigitChars

\* the weighted sum of a digit string: weight 1 on the 1st, 3rd, ... digit
\* (the even 0-based positions), weight 3 on the others
RECURSIVE ChecksumOf(_)
ChecksumOf(t) ==
    IF t = <<>> THEN 0
    ELSE ChecksumOf(SubSeq(t, 1, Len(t) - 1))
             + DigitValue(t[Len(t)]) * (IF Len(t) % 2 = 1 THEN 1 ELSE 3)

\* C12: isValid(isbn) returns true if and only if, white space and hyphens
\* removed, the text is exactly 13 decimal digits whose weighted sum (weight 1
\* on even 0-based positions, 3 on odd ones) is divisible by 10.
C12_ChecksumRule ==
    IsValidDone =>
        outcome = ReturnBoolean(/\ Len(plain) = 13
                                /\ AllDigits(plain)
                                /\ ChecksumOf(plain) % 10 = 0)

\* "978-3-16-148410-0" is accepted
C12_Witness == IsValidDone /\ isbn = IsbnHyphens /\ outcome.bool

\* C13: isValid returns false, and raises nothing, for every input that
\* without its separators has fewer than 13 characters, more than 13, or a
\* character that is not a decimal digit.
C13_MalformedRejected ==
    (IsValidDone /\ (Len(plain) < 13 \/ Len(plain) > 13 \/ ~AllDigits(plain))) =>
        outcome = ReturnBoolean(FALSE)

\* the 11 digits "97831614841", whose weighted sum is divisible by 10
C13_Witness ==
    /\ IsValidDone
    /\ plain = SubSeq(IsbnLong, 1, 11)
    /\ ChecksumOf(plain) % 10 = 0
    /\ outcome.kind = "return" /\ ~outcome.bool

\* C14: putting a hyphen or a white-space character in at any place of the
\* input, or taking one out, does not change the result of isValid; nor does
\* taking all of them out.
C14_SeparatorsIgnored ==
    IsValidDone =>
        /\ \A p \in 0..Len(isbn), c \in WhiteSpace \cup {"-"} :
               isValid(InsertAt(isbn, p, c)) = outcome.bool
        /\ \A p \in 1..Len(isbn) :
               isbn[p] \in WhiteSpace \cup {"-"} =>
                   isValid(RemoveAt(isbn, p)) = outcome.bool
        /\ isValid(plain) = outcome.bool

\* an accepted ISBN with a leading space and a hyphen inside
C14_Witness ==
    /\ IsValidDone /\ outcome.bool
    /\ Len(isbn) = Len(plain) + 2
    /\ isbn[1] = " "
    /\ \E p \in 2..(Len(isbn) - 1) : isbn[p] = "-"

----------------------------------------------------------------------------
(* C15, C16, C17 *)

\* the call under way is a call of play that has ended
PlayDone == fn = "play"

\* both moves the caller means are valid moves
BothValid == word1 \in validMoves /\ word2 \in validMoves

\* rock beats scissors, scissors beats paper, paper beats rock
Beats == {<<Rock, Scissors>>, <<Scissors, Paper>>, <<Paper, Rock>>}

\* C15: for every pair of valid moves play returns 0 when the moves are the
\* same, 1 when the first beats the second, 2 in every other case, and
\* nothing else.
C15_Judgement ==
    (PlayDone /\ BothValid) =>
        outcome = ReturnNumber(Num(IF word1 = word2 THEN 0
                                   ELSE IF <<word1, word2>> \in Beats THEN 1
                                   ELSE 2))

\* paper against rock: the first player wins
C15_Witness ==
    /\ PlayDone
    /\ player1 = Paper /\ player2 = Rock
    /\ outcome.kind = "return" /\ outcome.value = 1

\* a text with the case of its k-th letter changed
OtherCase(c) == IF LowerChar(c) = c THEN UpperChar(c) ELSE LowerChar(c)
CaseChangedAt(t, k) == [t EXCEPT ![k] = OtherCase(t[k])]
\* an argument written another way: the case of one letter or of all letters
\* changed, a white-space character more at an end
Rewritten(t) ==
    {CaseChangedAt(t, k) : k \in 1..Len(t)}
        \cup {ToUpperCase(t), ToLowerCase(t)}
        \cup {<<c>> \o t : c \in WhiteSpace}
        \cup {t \o <<c>> : c \in WhiteSpace}

\* C16: for valid moves, changing the case of letters of an argument or
\* adding white space before or after it leaves the result of play
\* unchanged; the result is that of the bare lower-case moves.
C16_CaseAndSpaceIgnored ==
    (PlayDone /\ BothValid) =>
        /\ \A v \in Rewritten(player1) : play(v, player2) = outcome
        /\ \A v \in Rewritten(player2) : play(player1, v) = outcome
        /\ play(word1, word2) = outcome

\* " Rock" against "SCISSORS ": the first player wins
C16_Witness ==
    /\ PlayDone
    /\ player1 = <<" ", "R", "o", "c", "k">>
    /\ player2 = ToUpperCase(Scissors) \o <<" ">>
    /\ outcome.kind = "return" /\ outcome.value = 1

\* C17: when a move, trimmed and in lower case, is not rock, paper or
\* scissors, play raises an error "Invalid move: " followed by an offending
\* argument exactly as it was passed, and returns no number.
C17_InvalidMove ==
    (PlayDone /\ ~BothValid) =>
        /\ outcome.kind = "throw"
        /\ outcome.error = "Invalid move: "
        /\ \/ word1 \notin validMoves /\ outcome.text = player1
           \/ word2 \notin validMoves /\ outcome.text = player2

\* " LIZARD" against a valid move: the message carries " LIZARD"
C17_Witness ==
    /\ PlayDone
    /\ word2 \in validMoves
    /\ player1 = <<" ">> \o ToUpperCase(Lizard)
    /\ outcome = ThrowWith("Invalid move: ", player1)

----------------------------------------------------------------------------
(* C18, C19, C20 *)

\* the call under way is a call of formatDuration that has ended
DurationDone == fn = "formatDuration"

\* a component of the output: nothing for 0, else the number and its unit
Component(v, unit) == IF v = 0 THEN <<>> ELSE Decimal(v) \o <<unit>>
\* the output the contract gives a whole number n >= 0 of seconds
Formatted(n) ==
    IF n = 0 THEN <<"0", "s">>
    ELSE Component(n \div 3600, "h")
             \o Component((n % 3600) \div 60, "m")
             \o Component(n % 60, "s")

\* C18: for every whole number n >= 0 of seconds the output is "<h>h" with
\* h = n div 3600 (not capped), then "<m>m" with m = (n mod 3600) div 60,
\* then "<s>s" with s = n mod 60, each zero component left out, except that
\* 0 gives "0s"; the output is never empty.
C18_HoursMinutesSeconds ==
    (DurationDone /\ seconds >= 0 /\ seconds % 10 = 0) =>
        /\ outcome = ReturnText(Formatted(seconds \div 10))
        /\ outcome.text # <<>>

\* 25 hours, 6 minutes, 39 seconds: "25h6m39s", the hours not rolled into days
C18_Witness ==
    /\ DurationDone
    /\ seconds = 10 * (3600 * 25 + 60 * 6 + 39)
    /\ outcome.kind = "return"
    /\ outcome.text = <<"2", "5", "h", "6", "m", "3", "9", "s">>

\* C19: every argument below 0, also one that would round to 0, raises the
\* error "Duration must be positive" and no text is returned; 0 is accepted.
C19_NegativeRejected ==
    DurationDone =>
        /\ seconds < 0 => outcome = Throw("Duration must be positive")
        /\ seconds = 0 => outcome.kind = "return"

\* -0.4 seconds, which would round to 0, is rejected
C19_Witness ==
    /\ DurationDone
    /\ seconds = -4
    /\ outcome.kind = "throw"
    /\ outcome.error = "Duration must be positive"

\* C20: a number of seconds with a fraction is rounded to the nearest whole
\* second before it is split, so the rounding carries into minutes and
\* hours: 59.6 gives "1m" and 59.4 gives "59s".
C20_RoundedBeforeSplit ==
    /\ (DurationDone /\ seconds >= 0) =>
           \E n \in {seconds \div 10, seconds \div 10 + 1} :
               /\ 10 * n - seconds <= 5
               /\ seconds - 10 * n <= 5
               /\ outcome = ReturnText(Formatted(n))
    /\ (DurationDone /\ seconds = 596) => outcome.text = <<"1", "m">>
    /\ (DurationDone /\ seconds = 594) => outcome.text = <<"5", "9", "s">>
    /\ (DurationDone /\ seconds = 35996) => outcome.text = <<"1", "h">>

\* 59.6 seconds gives "1m"
C20_Witness ==
    /\ DurationDone
    /\ seconds = 596
    /\ outcome.kind = "return"
    /\ outcome.text = <<"1", "m">>

----------------------------------------------------------------------------
(* C21 *)

\* a token is an integer as a caller writes it: digits, a minus sign before
\* them or not
IsInteger(t) ==
    /\ t # <<>>
    /\ IsWholeNumber(t) \/ (t[1] = "-" /\ IsWholeNumber(Tail(t)))
IntegerValue(t) ==
    IF t[1] = "-" THEN 0 - WrittenValue(Tail(t)) ELSE WrittenValue(t)
\* the input is a sequence of complete pairs of integers, a negative one
\* among them
PairsWithNegative ==
    /\ Len(tokens) % 2 = 0
    /\ \A k \in 1..Len(tokens) : IsInteger(tokens[k])
    /\ \E k \in 1..Len(tokens) : tokens[k][1] = "-"
RECURSIVE IntegerPairSum(_)
IntegerPairSum(ts) ==
    IF Len(ts) < 2 THEN 0
    ELSE Contribution(IntegerValue(ts[1]), IntegerValue(ts[2]))
             + IntegerPairSum(SubSeq(ts, 3, Len(ts)))

\* C21: a pair whose sector is written as a negative integer is skipped and
\* leaves the other pairs as they are: the call returns the sum over the
\* remaining valid pairs (60 for "1 -1 3 20" and for "2 -5 3 20").
C21_NegativeSectorSkipped ==
    (CalcDone /\ PairsWithNegative) =>
        outcome = ReturnNumber(Num(IntegerPairSum(tokens)))

----------------------------------------------------------------------------
(* C22 *)

\* the input is a sequence of whole-number tokens, the last one paired or not
WholeNumberTokensOnly == \A k \in 1..Len(tokens) : IsWholeNumber(tokens[k])

\* the tokens with the two tokens of every complete pair exchanged
Exchanged(ts) ==
    [i \in 1..Len(ts) |->
        IF i > 2 * (Len(ts) \div 2) THEN ts[i]
        ELSE IF i % 2 = 1 THEN ts[i + 1] ELSE ts[i - 1]]

\* the sum over the pairs 1..k, the pair j being the tokens 2j-1 and 2j, the
\* first of them the multiplier
RECURSIVE SumByPosition(_, _)
SumByPosition(ts, k) ==
    IF k = 0 THEN 0
    ELSE Contribution(WrittenValue(ts[2 * k - 1]), WrittenValue(ts[2 * k]))
             + SumByPosition(ts, k - 1)

\* C22: the k-th pair is made of the tokens 2k-1 and 2k in the order of the
\* input, the first the multiplier and the second the sector; exchanging the
\* two tokens of the pairs exchanges their roles ("3 20" gives 60, "20 3"
\* gives 0).
C22_PairedByPosition ==
    (CalcDone /\ WholeNumberTokensOnly) =>
        /\ outcome = ReturnNumber(Num(SumByPosition(tokens, Len(tokens) \div 2)))
        /\ calcPoints(Join(Exchanged(tokens), seps))
               = Num(SumByPosition(Exchanged(tokens), Len(tokens) \div 2))
        /\ tokens = <<Decimal(3), Decimal(20)>> =>
               /\ outcome.value = 60
               /\ calcPoints(Join(<<Decimal(20), Decimal(3)>>, seps)) = Num(0)

\* "3 20" gives 60
C22_Witness ==
    /\ CalcDone
    /\ hits = <<"3", " ", "2", "0">>
    /\ outcome = ReturnNumber(Num(60))

----------------------------------------------------------------------------
(* C23 *)

\* the input is whole numbers and empty tokens: a separator at an end of the
\* text or next to another separator
WithEmptyToken ==
    /\ \A k \in 1..Len(tokens) : tokens[k] = <<>> \/ IsWholeNumber(tokens[k])
    /\ \E k \in 1..Len(tokens) : tokens[k] = <<>>

\* the tokens with "0" written for every empty one
ZeroForEmpty(ts) == [i \in 1..Len(ts) |-> IF ts[i] = <<>> THEN Decimal(0) ELSE ts[i]]

\* C23: every single separator character cuts the text: two separators in a
\* row, or one at an end, give an empty token that counts as 0 and takes a
\* place in the pairing, so that every later token moves one place (" 3 20"
\* and "3  20" give 0, not 60).
C23_EverySeparatorCuts ==
    (CalcDone /\ WithEmptyToken) =>
        /\ Split(hits) = tokens
        /\ outcome = ReturnNumber(Num(SumByPosition(ZeroForEmpty(tokens),
                                                    Len(tokens) \div 2)))
        /\ calcPoints(<<" ", "3", " ", "2", "0">>) = Num(0)
        /\ calcPoints(<<"3", " ", " ", "2", "0">>) = Num(0)

\* " 3 25": the empty token before the first space is the multiplier 0 of the
\* first pair, 25 is left over
C23_Witness ==
    /\ CalcDone
    /\ hits = <<" ", "3", " ", "2", "5">>
    /\ tokens = <<<<>>, Decimal(3), Decimal(25)>>
    /\ outcome = ReturnNumber(Num(0))

----------------------------------------------------------------------------
(* C24 *)

\* a token that cannot be coerced to a number
NotANumber(t) == t # <<>> /\ ~IsWholeNumber(t)
\* the number a token is coerced to, for a token that can be
Coerced(t) == IF t = <<>> THEN 0 ELSE WrittenValue(t)
\* the pair k has a token that cannot be coerced
PairWithNotANumber(k) ==
    NotANumber(tokens[2 * k - 1]) \/ NotANumber(tokens[2 * k])
\* the complete pairs of the input
PairsOfInput == 1..(Len(tokens) \div 2)
\* the input has a token that cannot be coerced in a complete pair
NotANumberInPair == \E k \in PairsOfInput : PairWithNotANumber(k)

\* C24 as claimed: no input raises an exception; no pair with a token that
\* cannot be coerced to a number is skipped by the range checks, and the
\* total returned is then not-a-number.
C24_AsClaimed ==
    CalcDone =>
        /\ outcome.kind = "return"
        /\ NotANumberInPair => outcome.nan

\* the pair k passes both range checks: each of its values is no number or
\* lies in its range
PassesRangeChecks(k) ==
    LET m == tokens[2 * k - 1]
        s == tokens[2 * k]
    IN  /\ NotANumber(m) \/ Coerced(m) \in 1..3
        /\ NotANumber(s) \/ Coerced(s) \in 0..25
\* the sum over the pairs 1..k that have numbers only
RECURSIVE SumOfNumberPairs(_)
SumOfNumberPairs(k) ==
    IF k = 0 THEN 0
    ELSE (IF PairWithNotANumber(k) THEN 0
          ELSE Contribution(Coerced(tokens[2 * k - 1]), Coerced(tokens[2 * k])))
             + SumOfNumberPairs(k - 1)

\* C24 amended: no input raises an exception; a value that cannot be coerced
\* to a number passes its own range check, so a pair with such a token is
\* skipped only when its other value is a number outside its range; when
\* such a pair is not skipped the total returned is not-a-number whatever
\* the other pairs are, and else the total is the sum over the other pairs.
C24_NotANumberPasses ==
    CalcDone =>
        /\ outcome.kind = "return"
        /\ NotANumberInPair =>
               IF \E k \in PairsOfInput : PairWithNotANumber(k) /\ PassesRangeChecks(k)
               THEN outcome = ReturnNumber(NaN)
               ELSE outcome = ReturnNumber(Num(SumOfNumberPairs(Len(tokens) \div 2)))

\* "x 25 1 25": the first pair is accumulated and the total is not-a-number,
\* the valid second pair notwithstanding
C24_Witness ==
    /\ CalcDone
    /\ tokens = <<<<"x">>, Decimal(25), Decimal(1), Decimal(25)>>
    /\ outcome.kind = "return" /\ outcome.nan

----------------------------------------------------------------------------
(* C25, C26 *)

\* the call was made on 13 decimal digits without separators
ThirteenDigitsGiven == isbn = plain /\ Len(plain) = 13 /\ AllDigits(plain)

\* C25: changing exactly one digit of an accepted ISBN-13 to another digit,
\* at the place of the check digit or at any other of the 13 places, gives a
\* text that isValid rejects.
C25_SingleDigitChangeRejected ==
    (IsValidDone /\ ThirteenDigitsGiven /\ outcome.bool) =>
        \A p \in 1..13 : \A c \in DigitChars \ {plain[p]} :
            ~isValid([plain EXCEPT ![p] = c])

\* "9783866801936" is accepted: the test's 9783866801929 with its 12th digit
\* and its check digit replaced
C25_Witness ==
    /\ IsValidDone /\ ThirteenDigitsGiven
    /\ plain = [Isbn1 EXCEPT ![12] = "3", ![13] = "6"]
    /\ outcome.kind = "return" /\ outcome.bool

\* the 13th digits with which isValid accepts the first 12 digits of a text
AcceptedCheckDigits(t) ==
    {c \in DigitChars : isValid(Append(SubSeq(t, 1, 12), c))}

\* C26: for 12 decimal digits there is exactly one digit c in 0..9 such that
\* isValid accepts the 12 digits followed by c.
C26_OneCheckDigit ==
    (IsValidDone /\ ThirteenDigitsGiven) =>
        /\ Cardinality(AcceptedCheckDigits(plain)) = 1
        /\ outcome.bool <=> plain[13] \in AcceptedCheckDigits(plain)

\* "078316148410" takes the check digit 9 and no other
C26_Witness ==
    /\ IsValidDone /\ ThirteenDigitsGiven
    /\ plain = [Isbn2 EXCEPT ![1] = "0", ![13] = "9"]
    /\ outcome.bool
    /\ AcceptedCheckDigits(plain) = {"9"}

----------------------------------------------------------------------------
(* C27, C28 *)

\* the moves that a move beats, the moves that it loses to
BeatenBy(a) == {b \in validMoves : play(a, b) = ReturnNumber(Num(1))}
LosesTo(a) == {b \in validMoves : play(a, b) = ReturnNumber(Num(2))}

\* C27: with the players exchanged a draw stays a draw and a win of the
\* first player becomes a win of the second, for all valid moves; every move
\* beats exactly one other move and loses to exactly one other move.
C27_Antisymmetric ==
    (PlayDone /\ BothValid) =>
        LET back == play(player2, player1)
        IN  /\ outcome.kind = "return" /\ back.kind = "return"
            /\ outcome.value = 0 <=> back.value = 0
            /\ outcome.value = 1 <=> back.value = 2
            /\ outcome.value = 2 <=> back.value = 1
            /\ Cardinality(BeatenBy(word1)) = 1 /\ word1 \notin BeatenBy(word1)
            /\ Cardinality(LosesTo(word1)) = 1 /\ word1 \notin LosesTo(word1)
            /\ BeatenBy(word1) # LosesTo(word1)

\* scissors against rock is 2, rock against scissors is 1
C27_Witness ==
    /\ PlayDone
    /\ player1 = Scissors /\ player2 = Rock
    /\ outcome = ReturnNumber(Num(2))
    /\ play(player2, player1) = ReturnNumber(Num(1))

\* C28: player1 is validated before player2, and both before the moves are
\* compared: with two invalid arguments the error names player1's; an
\* invalid player2 raises the error when player1's move is valid, and also
\* when the two arguments are the same text.
C28_ValidationOrder ==
    PlayDone =>
        /\ (word1 \notin validMoves /\ word2 \notin validMoves) =>
               outcome = ThrowWith("Invalid move: ", player1)
        /\ (word1 \in validMoves /\ word2 \notin validMoves) =>
               outcome = ThrowWith("Invalid move: ", player2)
        /\ (player1 = player2 /\ word2 \notin validMoves) =>
               outcome.kind = "throw"

\* "lizard" against "spock": the error names lizard
C28_Witness ==
    /\ PlayDone
    /\ player1 = Lizard /\ player2 = Spock
    /\ outcome = ThrowWith("Invalid move: ", Lizard)

----------------------------------------------------------------------------
(* C29 *)

\* the place of a unit letter in a text, 0 when the text has none
PlaceOf(t, unit) ==
    IF \E i \in 1..Len(t) : t[i] = unit
    THEN CHOOSE i \in 1..Len(t) : t[i] = unit
    ELSE 0
\* the component with that unit is shown
Shown(t, unit) == PlaceOf(t, unit) # 0
\* the number written before the unit letter, 0 for a component not shown
ShownValue(t, unit) ==
    IF ~Shown(t, unit) THEN 0
    ELSE LET i == PlaceOf(t, unit)
             from == CHOOSE j \in 1..i :
                         /\ \A k \in j..(i - 1) : t[k] \in DigitChars
                         /\ j = 1 \/ t[j - 1] \notin DigitChars
         IN  DecimalValue(SubSeq(t, from, i - 1))

\* C29: for every whole number n >= 0 of seconds the components shown in the
\* output give n back, 3600 * h + 60 * m + s = n with a component not shown
\* read as 0; a shown minute value lies in 1..59, a shown second value in
\* 0..59, and 0 seconds are shown in "0s" only.
C29_ComponentsReconstruct ==
    (DurationDone /\ seconds >= 0 /\ seconds % 10 = 0) =>
        LET t == outcome.text
            h == ShownValue(t, "h")
            m == ShownValue(t, "m")
            s == ShownValue(t, "s")
        IN  /\ outcome.kind = "return"
            /\ 3600 * h + 60 * m + s = seconds \div 10
            /\ Shown(t, "m") => m \in 1..59
            /\ Shown(t, "s") => s \in 0..59
            /\ (Shown(t, "s") /\ s = 0) => t = <<"0", "s">>

\* 25 hours and 1 minute: "25h1m", no seconds shown
C29_Witness ==
    /\ DurationDone
    /\ seconds = 10 * (3600 * 25 + 60)
    /\ outcome.text = <<"2", "5", "h", "1", "m">>
    /\ ~Shown(outcome.text, "s")
    /\ ShownValue(outcome.text, "h") = 25

----------------------------------------------------------------------------
(* C30 *)

\* the call under way and the kept call are calls of formatDuration on two
\* different whole numbers of seconds, none negative
TwoWholeDurations ==
    /\ DurationDone /\ memo.fn = "formatDuration"
    /\ seconds >= 0 /\ seconds % 10 = 0
    /\ memo.seconds >= 0 /\ memo.seconds % 10 = 0
    /\ memo.seconds # seconds

\* C30: two different whole numbers of seconds, none negative, never give
\* the same output.
C30_Injective ==
    TwoWholeDurations =>
        /\ outcome.kind = "return" /\ memo.outcome.kind = "return"
        /\ outcome.text # memo.outcome.text

\* 24 hours after 0 seconds: "24h" after "0s"
C30_Witness ==
    /\ TwoWholeDurations
    /\ memo.seconds = 0 /\ memo.outcome.text = <<"0", "s">>
    /\ seconds = 10 * 3600 * 24 /\ outcome.text = <<"2", "4", "h">>

====
